---- MODULE Spec2Model ----
(***************************************************************************)
(* Model of majority_element.h: the Boyer-Moore majority vote              *)
(* (majority_element, two forward passes) and the sorted-range check       *)
(* (is_majority_element, an equal-range lookup).                           *)
(*                                                                         *)
(* Positions are iterators: position p of a sequence s designates the      *)
(* element s[p+1]; End(s) = Len(s) is the one-past-the-end iterator.       *)
(***************************************************************************)
EXTENDS Integers, Sequences, FiniteSets, TLC

\* ---------------------------------------------------------------- bounds
MaxLen == 5
NumValues == 3

\* size_t arithmetic is modular; 2^16 is the narrowest size_t the language
\* allows, and the wrap-around behaviour is the same at every width.
SizeMod == 65536

Values == 1..NumValues

\* user-supplied equality comparators (the _Comp argument)
Comparators == {"equal_to", "same_parity"}

\* result before majority_element has returned
NoResult == -1

\* verdict before is_majority_element has been called
NoVerdict == "none"

VARIABLES
    seq,          \* the range [begin, end)
    comp,         \* the equality comparator passed to majority_element
    pc,           \* "vote", "confirm", "done", "checked"
    it,           \* the traversal iterator of the running loop
    candidate,    \* _FwdIt candidate
    confidence,   \* size_t confidence
    nmatches,     \* size_t nmatches
    ntotal,       \* size_t ntotal
    result,       \* the iterator majority_element returned
    reads,        \* positions dereferenced so far
    voteCalls,    \* comparator invocations of the voting pass
    confirmCalls, \* comparator invocations of the confirmation pass
    queryX,       \* the value x passed to is_majority_element
    verdict       \* what is_majority_element returned

vars == <<seq, comp, pc, it, candidate, confidence, nmatches, ntotal, result,
          reads, voteCalls, confirmCalls, queryX, verdict>>

\* ------------------------------------------------------------ primitives
End(s) == Len(s)

Inc(n) == (n + 1) % SizeMod

Dec(n) == (n + SizeMod - 1) % SizeMod

\* the comparator functor applied to two values
Comp(cmpr, a, b) ==
    IF cmpr = "equal_to" THEN a = b ELSE (a % 2) = (b % 2)

\* std::less<val_t>
Less(a, b) == a < b

\* comp(*p, *q): dereferencing a position outside [begin, end) is undefined
\* behaviour, so the call can then produce either boolean
CompOutcomes(cmpr, s, p, q) ==
    IF p \in 0..(Len(s) - 1) /\ q \in 0..(Len(s) - 1)
    THEN {Comp(cmpr, s[p + 1], s[q + 1])}
    ELSE BOOLEAN

\* ----------------------------------------------------------- voting pass
\* VoteNext with the decrement on a mismatch left out
VoteNext_NoDecrement(cmpr, s, cand, conf, i) ==
    IF conf = 0
    THEN {[candidate |-> i, confidence |-> Inc(conf), reads |-> {}, calls |-> 0]}
    ELSE {[candidate |-> cand,
           confidence |-> IF eq THEN Inc(conf) ELSE conf,
           reads |-> {cand, i}, calls |-> 1] : eq \in CompOutcomes(cmpr, s, cand, i)}

\* VoteNext with the "confidence == 0" branch left out
VoteNext_NoReset(cmpr, s, cand, conf, i) ==
    {[candidate |-> cand,
      confidence |-> IF eq THEN Inc(conf) ELSE Dec(conf),
      reads |-> {cand, i}, calls |-> 1] : eq \in CompOutcomes(cmpr, s, cand, i)}

\* one iteration of the voting loop at position i: the possible outcomes,
\* with the positions it dereferenced and the comparator calls it made
VoteNext(cmpr, s, cand, conf, i) ==
    IF conf = 0
    THEN {[candidate |-> i, confidence |-> Inc(conf), reads |-> {}, calls |-> 0]}
    ELSE {[candidate |-> cand,
           confidence |-> IF eq THEN Inc(conf) ELSE Dec(conf),
           reads |-> {cand, i}, calls |-> 1] : eq \in CompOutcomes(cmpr, s, cand, i)}

\* ----------------------------------------------------- confirmation pass
\* one iteration of the confirmation loop at position i
ConfirmNext(cmpr, s, cand, nm, nt, i) ==
    {[nmatches |-> IF eq THEN Inc(nm) ELSE nm,
      ntotal |-> Inc(nt),
      reads |-> {cand, i}, calls |-> 1] : eq \in CompOutcomes(cmpr, s, cand, i)}

\* MajorityTest accepting a tie at exactly half
MajorityTest_AtLeastHalf(nm, nt) == (nt \div 2) <= nm

\* MajorityTest with the half rounded up
MajorityTest_RoundUp(nm, nt) == ((nt + 1) \div 2) < nm

\* the test of the final return
MajorityTest(nm, nt) == (nt \div 2) < nm

\* the iterator the final return yields
ReturnValue(s, cand, nm, nt) == IF MajorityTest(nm, nt) THEN cand ELSE End(s)

\* majority_element as a function of its arguments: the voting loop run
\* over the first k positions, the confirmation loop likewise, the return
RECURSIVE VoteStates(_, _, _)
VoteStates(cmpr, s, k) ==
    IF k = 0 THEN {[candidate |-> End(s), confidence |-> 0]}
    ELSE UNION {{[candidate |-> n.candidate, confidence |-> n.confidence] :
                    n \in VoteNext(cmpr, s, st.candidate, st.confidence, k - 1)} :
                st \in VoteStates(cmpr, s, k - 1)}

RECURSIVE ConfirmStates(_, _, _, _)
ConfirmStates(cmpr, s, cand, k) ==
    IF k = 0 THEN {[nmatches |-> 0, ntotal |-> 0]}
    ELSE UNION {{[nmatches |-> n.nmatches, ntotal |-> n.ntotal] :
                    n \in ConfirmNext(cmpr, s, cand, st.nmatches, st.ntotal, k - 1)} :
                st \in ConfirmStates(cmpr, s, cand, k - 1)}

majority_element(cmpr, s) ==
    UNION {{ReturnValue(s, v.candidate, c.nmatches, c.ntotal) :
               c \in ConfirmStates(cmpr, s, v.candidate, Len(s))} :
           v \in VoteStates(cmpr, s, Len(s))}

\* ------------------------------------------------------------ the machine
Seqs == UNION {[1..n -> Values] : n \in 0..MaxLen}

Init ==
    /\ seq \in Seqs
    /\ comp \in Comparators
    /\ pc = "vote"
    /\ it = 0
    /\ candidate = End(seq)
    /\ confidence = 0
    /\ nmatches = 0
    /\ ntotal = 0
    /\ result = NoResult
    /\ reads = {}
    /\ voteCalls = 0
    /\ confirmCalls = 0
    /\ queryX = 0
    /\ verdict = NoVerdict

VoteStep ==
    /\ pc = "vote"
    /\ it # End(seq)
    /\ \E n \in VoteNext(comp, seq, candidate, confidence, it) :
          /\ candidate' = n.candidate
          /\ confidence' = n.confidence
          /\ reads' = reads \cup n.reads
          /\ voteCalls' = voteCalls + n.calls
    /\ it' = it + 1
    /\ UNCHANGED <<seq, comp, pc, nmatches, ntotal, result, confirmCalls,
                   queryX, verdict>>

VoteEnd ==
    /\ pc = "vote"
    /\ it = End(seq)
    /\ pc' = "confirm"
    /\ nmatches' = 0
    /\ ntotal' = 0
    /\ it' = 0
    /\ UNCHANGED <<seq, comp, candidate, confidence, result, reads, voteCalls,
                   confirmCalls, queryX, verdict>>

ConfirmStep ==
    /\ pc = "confirm"
    /\ it # End(seq)
    /\ \E n \in ConfirmNext(comp, seq, candidate, nmatches, ntotal, it) :
          /\ nmatches' = n.nmatches
          /\ ntotal' = n.ntotal
          /\ reads' = reads \cup n.reads
          /\ confirmCalls' = confirmCalls + n.calls
    /\ it' = it + 1
    /\ UNCHANGED <<seq, comp, pc, candidate, confidence, result, voteCalls,
                   queryX, verdict>>

Return ==
    /\ pc = "confirm"
    /\ it = End(seq)
    /\ result' = ReturnValue(seq, candidate, nmatches, ntotal)
    /\ pc' = "done"
    /\ UNCHANGED <<seq, comp, it, candidate, confidence, nmatches, ntotal,
                   reads, voteCalls, confirmCalls, queryX, verdict>>

\* ---------------------------------------------------- is_majority_element
\* std::lower_bound over [first, first + len) by halving
RECURSIVE LowerBound(_, _, _, _)
LowerBound(s, first, len, x) ==
    IF len <= 0 THEN first
    ELSE LET half == len \div 2
             middle == first + half
         IN IF Less(s[middle + 1], x)
            THEN LowerBound(s, middle + 1, len - half - 1, x)
            ELSE LowerBound(s, first, half, x)

\* std::upper_bound over [first, first + len) by halving
RECURSIVE UpperBound(_, _, _, _)
UpperBound(s, first, len, x) ==
    IF len <= 0 THEN first
    ELSE LET half == len \div 2
             middle == first + half
         IN IF Less(x, s[middle + 1])
            THEN UpperBound(s, first, half, x)
            ELSE UpperBound(s, middle + 1, len - half - 1, x)

\* std::equal_range(begin, end, x, comp): the pair (first, second)
EqualRange(s, x) ==
    [first |-> LowerBound(s, 0, Len(s), x), second |-> UpperBound(s, 0, Len(s), x)]

\* is_majority_element accepting a run of exactly half the length
is_majority_element_AtLeastHalf(s, x) ==
    LET range == EqualRange(s, x)
    IN (range.second - range.first) >= (Len(s) \div 2)

\* distance(range.first, range.second) > (distance(begin, end) >> 1)
is_majority_element(s, x) ==
    LET range == EqualRange(s, x)
    IN (range.second - range.first) > (Len(s) \div 2)

\* the precondition of is_majority_element: [begin, end) is sorted
IsSorted(s) == \A i \in 1..(Len(s) - 1) : ~Less(s[i + 1], s[i])

\* the caller checks a hypothesis value x on a sorted range
IsMajorityElementCall ==
    /\ pc = "done"
    /\ IsSorted(seq)
    /\ \E x \in Values :
          /\ queryX' = x
          /\ verdict' = is_majority_element(seq, x)
    /\ pc' = "checked"
    /\ UNCHANGED <<seq, comp, it, candidate, confidence, nmatches, ntotal,
                   result, reads, voteCalls, confirmCalls>>

Next == VoteStep \/ VoteEnd \/ ConfirmStep \/ Return \/ IsMajorityElementCall

Spec == Init /\ [][Next]_vars

\* a call runs to completion: no step that can be taken is postponed forever
FairSpec == Spec /\ WF_vars(VoteStep \/ VoteEnd \/ ConfirmStep \/ Return)


\* =============================================================== properties
\* number of the first k elements of s that the comparator equates with v
Count(cmpr, s, k, v) == Cardinality({i \in 1..k : Comp(cmpr, s[i], v)})

\* values occurring in strictly more than half the positions of s
MajorityValues(cmpr, s) ==
    {v \in Values : Count(cmpr, s, Len(s), v) > Len(s) \div 2}

\* rearrangements of s
Perms(s) ==
    {t \in [1..Len(s) -> Values] :
        \A v \in Values : Count("equal_to", t, Len(t), v) = Count("equal_to", s, Len(s), v)}

Returned == result # NoResult

\* elements the voting pass has processed
Processed == IF pc = "vote" THEN it ELSE Len(seq)

ValidPositions == 0..(Len(seq) - 1)

\* C1: when some value v occupies strictly more than half the positions, the
\* returned position is not the end sentinel and its element equals v
C1_MajorityFound ==
    Returned =>
        \A v \in MajorityValues(comp, seq) :
            /\ result # End(seq)
            /\ result \in ValidPositions
            /\ Comp(comp, seq[result + 1], v)

C1_Witness ==
    /\ pc = "done"
    /\ Len(seq) >= 3
    /\ MajorityValues(comp, seq) # {}
    /\ result \in 1..(Len(seq) - 1)
    /\ voteCalls > 0

C4_NoSentinelDeref ==
    /\ reads \subseteq ValidPositions
    /\ (pc = "vote" /\ it # End(seq) /\ confidence # 0) =>
           candidate \in ValidPositions /\ it \in ValidPositions
    /\ (pc = "confirm" /\ it # End(seq)) =>
           candidate \in ValidPositions /\ it \in ValidPositions

C4_Witness ==
    /\ pc = "done"
    /\ voteCalls > 0
    /\ confirmCalls > 0
    /\ candidate \in reads

\* C5: with a majority value present, every rearrangement of the sequence
\* yields a non-sentinel position whose element equals the one returned
C5_OrderIndependent ==
    (pc = "done" /\ MajorityValues(comp, seq) # {}) =>
        /\ result \in ValidPositions
        /\ \A t \in Perms(seq) : \A r \in majority_element(comp, t) :
              /\ r \in 0..(Len(t) - 1)
              /\ Comp(comp, t[r + 1], seq[result + 1])

C5_Witness ==
    /\ pc = "done"
    /\ Len(seq) >= 3
    /\ MajorityValues(comp, seq) # {}
    /\ \E t \in Perms(seq) : t # seq /\ result \notin majority_element(comp, t)

\* C6: after k elements with counter c and candidate value a, every value
\* other than a occurs at most (k - c)/2 times among them and a at most
\* (k + c)/2 times; after the pass a majority value is the candidate's value
C6_VoteInvariant ==
    LET k == Processed
        c == confidence
    IN /\ k = 0 => candidate = End(seq) /\ c = 0
       /\ k > 0 =>
            /\ candidate \in 0..(k - 1)
            /\ 2 * Count(comp, seq, k, seq[candidate + 1]) <= k + c
            /\ \A w \in Values :
                  ~Comp(comp, w, seq[candidate + 1]) =>
                      2 * Count(comp, seq, k, w) <= k - c
       /\ pc # "vote" =>
            \A v \in MajorityValues(comp, seq) :
                candidate \in ValidPositions /\ Comp(comp, seq[candidate + 1], v)

C6_Witness ==
    /\ pc = "vote"
    /\ it >= 3
    /\ confidence = 1
    /\ candidate >= 2
    /\ voteCalls > 0

PassStep ==
    /\ (pc = "vote" /\ pc' = "vote") => it \in ValidPositions /\ it' = it + 1
    /\ (pc = "confirm" /\ pc' = "confirm") => it \in ValidPositions /\ it' = it + 1
    /\ (pc = "vote" /\ pc' # "vote") => pc' = "confirm" /\ it = End(seq) /\ it' = 0
    /\ (pc = "confirm" /\ pc' # "confirm") => pc' = "done" /\ it = End(seq)
    /\ pc \in {"done", "checked"} => pc' \in {"done", "checked"} /\ it' = it
    /\ seq' = seq

\* the positions a pass has yet to visit and the calls it has made
PassProgress ==
    /\ it \in 0..Len(seq)
    /\ pc = "vote" => confirmCalls = 0 /\ voteCalls <= it
    /\ pc = "confirm" => confirmCalls = it

\* C8 as stated: at most n-1 comparator calls in the voting pass and exactly
\* n in the confirmation pass, for every length n
C8_CallsAtMostNMinus1 ==
    Returned => voteCalls <= Len(seq) - 1 /\ confirmCalls = Len(seq)

C8_Original ==
    /\ [][PassStep]_vars
    /\ [](PassProgress /\ C8_CallsAtMostNMinus1)
    /\ <>Returned

\* the comparator calls of a completed call, with the empty sequence covered
CallCounts ==
    Returned =>
        /\ voteCalls <= (IF Len(seq) = 0 THEN 0 ELSE Len(seq) - 1)
        /\ confirmCalls = Len(seq)

\* C8: every call terminates after exactly two forward passes without
\* backtracking; the voting pass calls the comparator at most n-1 times
\* (0 times when n = 0) and the confirmation pass exactly n times
C8_TwoPasses ==
    /\ [][PassStep]_vars
    /\ [](PassProgress /\ CallCounts)
    /\ <>Returned

C8_Witness ==
    /\ pc = "done"
    /\ Len(seq) >= 3
    /\ voteCalls = Len(seq) - 1
    /\ confirmCalls = Len(seq)

\* the counters stay within the number of elements processed
CounterRange ==
    /\ 0 <= confidence /\ confidence <= Processed
    /\ confidence % 2 = Processed % 2
    /\ 0 <= nmatches /\ nmatches <= ntotal /\ ntotal <= Len(seq)

\* C9: confidence is decremented only from a value of at least 1, after k
\* elements 0 <= confidence <= k with the parity of k, and
\* 0 <= nmatches <= ntotal <= len throughout
C9_NoWrap ==
    /\ []CounterRange
    /\ [][confidence' = Dec(confidence) => confidence >= 1]_vars

C9_Witness ==
    /\ pc = "vote"
    /\ it >= 3
    /\ confidence = 0
    /\ voteCalls >= 2

====
